---- MODULE Spec2Model ----
(***************************************************************************)
(* A model of src/geo/etl/extractProfileLocation.py: main() runs           *)
(* process_file on the works collection and then on the grants collection; *)
(* process_file loads a JSON array, asks the inference endpoint for a      *)
(* location per titled record, and writes the enriched array.              *)
(*                                                                         *)
(* Files and HTTP bodies are modelled at the level of JSON documents (the  *)
(* values json.load / response.json() produce); text is a sequence of      *)
(* one-character strings, so that str.strip() and string comparison are    *)
(* computed and not assumed.                                               *)
(***************************************************************************)
EXTENDS Integers, Sequences, FiniteSets, TLC

\* ------------------------------------------------------------ bounds
\* The longest input array explored.
MaxRecords == 2
\* The longest endpoint reply explored by SpecExtract.
MaxReplyLen == 5

\* ------------------------------------------------------------ text
\* The characters str.strip() removes; one whitespace character is modelled.
Whitespace == {" "}

RECURSIVE lstrip(_)
lstrip(s) ==
  IF s # <<>> /\ Head(s) \in Whitespace THEN lstrip(Tail(s)) ELSE s

RECURSIVE rstrip(_)
rstrip(s) ==
  IF s # <<>> /\ s[Len(s)] \in Whitespace
  THEN rstrip(SubSeq(s, 1, Len(s) - 1))
  ELSE s

\* A faulty variant of strip: only the leading whitespace goes.
strip_left_only(s) == lstrip(s)

\* str.strip(): leading and trailing whitespace removed.
strip(s) == rstrip(lstrip(s))

\* The literal "None" of line 60 and the sentinel "Unknown Location".
NoneText == <<"N", "o", "n", "e">>
UnknownLocation ==
  <<"U", "n", "k", "n", "o", "w", "n", " ", "L", "o", "c", "a", "t", "i", "o", "n">>

\* ------------------------------------------------------------ JSON values
JStr(s) == [t |-> "str", v |-> s]
JNum(n) == [t |-> "num", v |-> n]
JNull == [t |-> "null"]
JObj(f) == [t |-> "obj", v |-> f]
JArr(q) == [t |-> "arr", v |-> q]

\* Python truthiness of a parsed JSON value (`not data`, line 80).
truthy(x) ==
  CASE x.t = "null" -> FALSE
    [] x.t = "num" -> x.v # 0
    [] x.t = "str" -> x.v # <<>>
    [] x.t = "arr" -> x.v # <<>>
    [] x.t = "obj" -> DOMAIN x.v # {}

\* dict.get(key, default).
dict_get(f, k, default) == IF k \in DOMAIN f THEN f[k] ELSE default

\* A file on disk: absent, present with text that is not JSON, or a document.
Missing == [k |-> "missing"]
NotJson == [k |-> "notjson"]
Doc(x) == [k |-> "json", v |-> x]

\* ------------------------------------------------------------ configuration
Collections == {"works", "grants"}
\* The title_key main() passes for each collection (lines 104, 107).
title_key(c) == IF c = "works" THEN "name" ELSE "title"

EmptyMap == [x \in {} |-> JNull]

\* ------------------------------------------------------------ inference client
\* What one POST to LLAMA_API_URL can come to: no connection, an HTTP error
\* status, or a 2xx reply with some body.
ConnectionError == [k |-> "connection_error"]
HTTPError == [k |-> "http_error"]
Reply(body) == [k |-> "ok", body |-> body]

\* A 2xx reply whose JSON body is {"response": r}.
ReplyText(r) == Reply(Doc(JObj([response |-> JStr(r)])))

\* How a call ends: it returns a string or an exception leaves it.
Return(s) == [raised |-> FALSE, v |-> s]
Raise == [raised |-> TRUE]

\* A faulty variant of query_llama: the except clause is missing.
query_llama_no_except(o) ==
  IF o.k # "ok" \/ o.body.k # "json" THEN Raise
  ELSE IF o.body.v.t # "obj" THEN Raise
  ELSE LET raw == dict_get(o.body.v.v, "response", JStr(<<>>))
       IN IF raw.t # "str" THEN Raise ELSE Return(strip(raw.v))

\* query_llama (lines 27-44) on the outcome o of its POST.  requests.post and
\* raise_for_status raise a RequestException on a network or HTTP error, and
\* response.json() raises requests' JSONDecodeError (a RequestException too)
\* on a body that is not JSON: all are caught and give the sentinel.  A body
\* that is no object has no .get, and a `response` that is no string has no
\* .strip: the AttributeError is not a RequestException and leaves the call.
query_llama(o) ==
  IF o.k # "ok" THEN Return(UnknownLocation)
  ELSE IF o.body.k # "json" THEN Return(UnknownLocation)
  ELSE IF o.body.v.t # "obj" THEN Raise
  ELSE LET raw == dict_get(o.body.v.v, "response", JStr(<<>>))
       IN IF raw.t # "str" THEN Raise ELSE Return(strip(raw.v))

\* A faulty variant of extract_location: the reply is returned whatever it is.
extract_location_no_fallback(o) == query_llama(o)

\* A faulty variant of extract_location: "None" is compared without regard to case.
extract_location_any_case(o) ==
  LET r == query_llama(o)
      lower(ch) == IF ch = "N" THEN "n" ELSE ch
      low(s) == [n \in 1..Len(s) |-> lower(s[n])]
  IN IF r.raised THEN r
     ELSE IF r.v # <<>> /\ low(r.v) # low(NoneText) THEN r
     ELSE Return(UnknownLocation)

\* extract_location (lines 52-60) when the POST of its prompt comes to o.
extract_location(o) ==
  LET r == query_llama(o)
  IN IF r.raised THEN r
     ELSE IF r.v # <<>> /\ r.v # NoneText THEN r
     ELSE Return(UnknownLocation)

\* The prompt of lines 52-58: fixed text around the title.
build_prompt(title) ==
  <<"Identify the location associated with the following text.\nTitle: \"">>
    \o title
    \o <<"\"\nProvide the location in ISO 3166-1 alpha-3 format ... One word response only.\n">>

\* The request of lines 28-36.
post_request(i, title) ==
  [i |-> i, model |-> "llama3.1", prompt |-> build_prompt(title), stream |-> FALSE]

\* ------------------------------------------------------------ inputs
\* The elements an input array is drawn from, for title key k: records with a
\* plain, padded, blank, missing or null title, records that already carry a
\* `location`, and an element that is no mapping.
Base == [id |-> JNum(7)]
Elements(k) ==
  { JObj(Base @@ (k :> JStr(<<"A">>))),
    JObj(Base @@ (k :> JStr(<<" ", "B", " ">>))),
    JObj(Base @@ (k :> JStr(<<" ">>))),
    JObj(Base),
    JObj(Base @@ (k :> JStr(<<" ">>)) @@ ("location" :> JStr(<<"O", "L", "D">>))),
    JObj(Base @@ (k :> JStr(<<"A">>)) @@ ("location" :> JNull)),
    JObj(Base @@ (k :> JNull)),
    JNum(7) }

Arrays(k) ==
  UNION { [1..n -> Elements(k)] : n \in 1..MaxRecords }

\* Every content explored for an input file: the file errors of lines 69-82
\* and the arrays.
InputFiles(k) ==
  {Missing, NotJson, Doc(JArr(<<>>)), Doc(JObj(Base)), Doc(JNull)}
    \cup { Doc(JArr(a)) : a \in Arrays(k) }

\* The few contents the other collection's input takes while one collection
\* ranges over InputFiles.
FewInputFiles(k) ==
  {Missing, NotJson, Doc(JArr(<<>>)),
   Doc(JArr(<<JObj(Base @@ (k :> JStr(<<"A">>)))>>)),
   Doc(JArr(<<JNum(7)>>))}

\* What may be at an output path before the run.
OldOutput == Doc(JArr(<<JObj([id |-> JNum(0)])>>))
OutputFilesBefore == {Missing, OldOutput}

\* The replies explored in a run of main.
Replies == { NoneText, <<" ", "e", "o", " ">> }
Outcomes ==
  {ConnectionError, HTTPError, Reply(NotJson),
   Reply(Doc(JArr(<<>>))),
   Reply(Doc(JObj(EmptyMap))),
   Reply(Doc(JObj([response |-> JNull]))),
   Reply(Doc(JObj([response |-> JNum(7)])))}
    \cup { ReplyText(r) : r \in Replies }

\* The replies explored by SpecExtract: every text of at most MaxReplyLen
\* characters over Alphabet, as the `response` of a body, and a body without
\* the field.
Alphabet == {" ", "N", "o", "n", "e"}
Texts == UNION { [1..n -> Alphabet] : n \in 0..MaxReplyLen }
NoBody == [k |-> "none"]
Bodies == {Doc(JObj(EmptyMap))} \cup { Doc(JObj([response |-> JStr(r)])) : r \in Texts }

\* ------------------------------------------------------------ state
VARIABLES
  inFile,     \* the input file of each collection (WORKS_FILE, GRANTS_FILE)
  outFile,    \* the output file of each collection (GEO_WORKS_FILE, GEO_GRANTS_FILE)
  outBefore,  \* history: the output files as they were before the run
  pc,         \* where control is
  cur,        \* the collection main() is processing
  data,       \* process_file's `data`
  idx,        \* the position of the for loop of line 84, from 1
  inflight,   \* the requests posted and not yet answered
  sent,       \* history: the records a request was posted for, in this process_file call
  got,        \* history: what each answered request came to, in this process_file call
  nwrites,    \* history: how often each output file was opened for writing
  ret,        \* how each process_file call returned
  body,       \* SpecExtract: the body of the reply extract_location is applied to
  extracted   \* SpecExtract: what extract_location returned

vars ==
  <<inFile, outFile, outBefore, pc, cur, data, idx, inflight, sent, got, nwrites, ret,
    body, extracted>>

NoData == [t |-> "unset"]
Pending == [k |-> "pending"]

\* ------------------------------------------------------------ process_file's steps
\* A faulty variant of json_dump: only the records that got a location are written.
json_dump_enriched_only(d) ==
  Doc(JArr(SelectSeq(d.v, LAMBDA e : e.t = "obj" /\ "location" \in DOMAIN e.v)))

\* json.dump(data, file, ...) of line 95: the document the file then holds.
json_dump(d) == Doc(d)

\* A faulty variant of set_location: the record is rebuilt around the location.
set_location_rebuilt(d, i, loc) ==
  JArr([d.v EXCEPT ![i] = JObj([location |-> JStr(loc)])])

\* entry["location"] = location (line 91) on the i-th entry of d.
set_location(d, i, loc) ==
  JArr([d.v EXCEPT ![i] =
    JObj([f \in DOMAIN d.v[i].v \cup {"location"} |->
           IF f = "location" THEN JStr(loc) ELSE d.v[i].v[f]])])

\* A faulty variant of next_entry: the loop stays on the entry.
next_entry_again(i) == i

\* The for loop of line 84 moving to the next entry.
next_entry(i) == i + 1

\* A faulty variant of exhausted: the last entry is not visited.
exhausted_one_early(i, d) == i >= Len(d.v)

\* The for loop of line 84 having no entry left.
exhausted(i, d) == i > Len(d.v)

\* The title of line 85: what entry.get(title_key, "").strip() is, when
\* it is defined (the entry is a mapping and the value is a string).
has_title(e, k) == e.t = "obj" /\ dict_get(e.v, k, JStr(<<>>)).t = "str"

\* A faulty variant of title_of: the title is not trimmed.
title_of_untrimmed(e, k) == dict_get(e.v, k, JStr(<<>>)).v

title_of(e, k) == strip(dict_get(e.v, k, JStr(<<>>)).v)

Init ==
  /\ \E rich \in Collections :
       \E other \in Collections \ {rich} :
         \E a \in InputFiles(title_key(rich)), b \in FewInputFiles(title_key(other)) :
           inFile = (rich :> a) @@ (other :> b)
  /\ outFile \in [Collections -> OutputFilesBefore]
  /\ outBefore = outFile
  /\ pc = "main"
  /\ cur = "works"
  /\ data = NoData
  /\ idx = 0
  /\ inflight = {}
  /\ sent = <<>>
  /\ got = <<>>
  /\ nwrites = [c \in Collections |-> 0]
  /\ ret = [c \in Collections |-> "not_called"]
  /\ body = [k |-> "none"]
  /\ extracted = Pending

\* main() calling process_file for the current collection (lines 103-104, 106-107).
MainCall ==
  /\ pc = "main"
  /\ pc' = "exists"
  /\ data' = NoData
  /\ idx' = 0
  /\ sent' = <<>>
  /\ got' = <<>>
  /\ UNCHANGED <<inFile, outFile, outBefore, cur, inflight, nwrites, ret, body, extracted>>

\* Lines 69-71: the input file does not exist.
CheckExists ==
  /\ pc = "exists"
  /\ IF inFile[cur] = Missing
     THEN pc' = "return" /\ ret' = [ret EXCEPT ![cur] = "no_file"]
     ELSE pc' = "load" /\ ret' = ret
  /\ UNCHANGED <<inFile, outFile, outBefore, cur, data, idx, inflight, sent, got, nwrites,
                 body, extracted>>

\* Lines 73-78: json.load, and the return on a JSONDecodeError.
Load ==
  /\ pc = "load"
  /\ IF inFile[cur].k = "json"
     THEN pc' = "check" /\ data' = inFile[cur].v /\ ret' = ret
     ELSE pc' = "return" /\ data' = data /\ ret' = [ret EXCEPT ![cur] = "bad_json"]
  /\ UNCHANGED <<inFile, outFile, outBefore, cur, idx, inflight, sent, got, nwrites,
                 body, extracted>>

\* Lines 80-82: `not data or not isinstance(data, list)`.
CheckList ==
  /\ pc = "check"
  /\ IF ~truthy(data) \/ data.t # "arr"
     THEN pc' = "return" /\ idx' = idx /\ ret' = [ret EXCEPT ![cur] = "not_list"]
     ELSE pc' = "loop" /\ idx' = 1 /\ ret' = ret
  /\ UNCHANGED <<inFile, outFile, outBefore, cur, data, inflight, sent, got, nwrites,
                 body, extracted>>

\* Line 84 with no entry left: on to the write.
LoopEnd ==
  /\ pc = "loop"
  /\ exhausted(idx, data)
  /\ pc' = "write"
  /\ UNCHANGED <<inFile, outFile, outBefore, cur, data, idx, inflight, sent, got, nwrites,
                 ret, body, extracted>>

\* Line 85 raising: the entry has no .get, or the title has no .strip.
LoopRaise ==
  /\ pc = "loop"
  /\ ~exhausted(idx, data)
  /\ ~has_title(data.v[idx], title_key(cur))
  /\ pc' = "raised"
  /\ UNCHANGED <<inFile, outFile, outBefore, cur, data, idx, inflight, sent, got, nwrites,
                 ret, body, extracted>>

\* Lines 85-88: an entry whose trimmed title is empty is skipped.
LoopSkip ==
  /\ pc = "loop"
  /\ ~exhausted(idx, data)
  /\ has_title(data.v[idx], title_key(cur))
  /\ title_of(data.v[idx], title_key(cur)) = <<>>
  /\ idx' = next_entry(idx)
  /\ UNCHANGED <<inFile, outFile, outBefore, pc, cur, data, inflight, sent, got, nwrites,
                 ret, body, extracted>>

\* Lines 85-90, 52-59 and 28-36: the prompt for the entry is posted.
LoopPost ==
  /\ pc = "loop"
  /\ ~exhausted(idx, data)
  /\ has_title(data.v[idx], title_key(cur))
  /\ title_of(data.v[idx], title_key(cur)) # <<>>
  /\ inflight' = inflight \cup {post_request(idx, title_of(data.v[idx], title_key(cur)))}
  /\ sent' = Append(sent, idx)
  /\ pc' = "await"
  /\ UNCHANGED <<inFile, outFile, outBefore, cur, data, idx, got, nwrites, ret,
                 body, extracted>>

\* Lines 37-44, 60 and 90-92: the POST comes to outcome o; the location is
\* attached and the loop moves on, or the exception leaves process_file.
Answer ==
  /\ pc = "await"
  /\ \E req \in inflight, o \in Outcomes :
       LET r == extract_location(o)
       IN /\ inflight' = inflight \ {req}
          /\ got' = Append(got, o)
          /\ IF r.raised
             THEN pc' = "raised" /\ data' = data /\ idx' = idx
             ELSE /\ pc' = "loop"
                  /\ data' = set_location(data, idx, r.v)
                  /\ idx' = next_entry(idx)
  /\ UNCHANGED <<inFile, outFile, outBefore, cur, sent, nwrites, ret, body, extracted>>

\* Lines 94-97: the whole collection is written to the output path.
Write ==
  /\ pc = "write"
  /\ outFile' = [outFile EXCEPT ![cur] = json_dump(data)]
  /\ nwrites' = [nwrites EXCEPT ![cur] = @ + 1]
  /\ ret' = [ret EXCEPT ![cur] = "saved"]
  /\ pc' = "return"
  /\ UNCHANGED <<inFile, outBefore, cur, data, idx, inflight, sent, got, body, extracted>>

\* process_file returns to main(): on to grants (line 106), or to the end (line 109).
MainNext ==
  /\ pc = "return"
  /\ IF cur = "works"
     THEN cur' = "grants" /\ pc' = "main"
     ELSE cur' = cur /\ pc' = "done"
  /\ UNCHANGED <<inFile, outFile, outBefore, data, idx, inflight, sent, got, nwrites, ret,
                 body, extracted>>

Next ==
  \/ MainCall
  \/ CheckExists
  \/ Load
  \/ CheckList
  \/ LoopEnd
  \/ LoopRaise
  \/ LoopSkip
  \/ LoopPost
  \/ Answer
  \/ Write
  \/ MainNext

Spec == Init /\ [][Next]_vars

\* ------------------------------------------------------------ extract_location alone
InitExtract ==
  /\ body \in Bodies
  /\ extracted = Pending
  /\ inFile = [c \in Collections |-> Missing]
  /\ outFile = [c \in Collections |-> Missing]
  /\ outBefore = outFile
  /\ pc = "extract"
  /\ cur = "works"
  /\ data = NoData
  /\ idx = 0
  /\ inflight = {}
  /\ sent = <<>>
  /\ got = <<>>
  /\ nwrites = [c \in Collections |-> 0]
  /\ ret = [c \in Collections |-> "not_called"]

\* extract_location applied to a 2xx reply with the body drawn.
Extract ==
  /\ pc = "extract"
  /\ extracted = Pending
  /\ extracted' = extract_location(Reply(body))
  /\ UNCHANGED <<inFile, outFile, outBefore, pc, cur, data, idx, inflight, sent, got,
                 nwrites, ret, body>>

NextExtract == Extract

SpecExtract == InitExtract /\ [][NextExtract]_vars

\* ------------------------------------------------------------ vocabulary of the claims
\* The input array and the written array of collection c.
Inp(c) == inFile[c].v.v
Out(c) == outFile[c].v.v

\* process_file wrote collection c's output in this run.
Saved(c) == ret[c] = "saved"
\* process_file returned early from collection c on a file error.
FileError(c) == ret[c] \in {"no_file", "bad_json", "not_list"}

\* The title field of record e under key k is missing or all whitespace.
BlankTitle(e, k) ==
  k \notin DOMAIN e.v \/ \A n \in 1..Len(e.v[k].v) : e.v[k].v[n] = " "

\* Record e with its location field taken away.
WithoutLocation(e) == [f \in DOMAIN e.v \ {"location"} |-> e.v[f]]

\* e carries a location that is a non-empty string.
HasLocationText(e) ==
  /\ "location" \in DOMAIN e.v
  /\ e.v["location"].t = "str"
  /\ e.v["location"].v # <<>>

\* t is r without its leading and trailing spaces.
IsTrimOf(t, r) ==
  \E a \in 0..Len(r), b \in 0..Len(r) :
    /\ a + b <= Len(r)
    /\ t = SubSeq(r, a + 1, Len(r) - b)
    /\ \A n \in 1..a : r[n] = " "
    /\ \A n \in (Len(r) - b + 1)..Len(r) : r[n] = " "
    /\ t = <<>> \/ (t[1] # " " /\ t[Len(t)] # " ")

\* The POST failed with a network or an HTTP error.
Failed(o) == o.k \in {"connection_error", "http_error"}

\* ------------------------------------------------------------ claims
\* C1: the array process_file writes has the length of the input array, and
\* its i-th record is the i-th input record, its location apart: no record is
\* dropped, duplicated or moved.
C1_SameLengthAndOrder ==
  \A c \in Collections :
    Saved(c) =>
      /\ outFile[c].k = "json" /\ outFile[c].v.t = "arr"
      /\ Len(Out(c)) = Len(Inp(c))
      /\ \A i \in 1..Len(Inp(c)) :
           Out(c)[i].t = "obj" /\ WithoutLocation(Out(c)[i]) = WithoutLocation(Inp(c)[i])

C1_Witness ==
  \E c \in Collections :
    /\ Saved(c)
    /\ Len(Inp(c)) = 2
    /\ WithoutLocation(Inp(c)[1]) # WithoutLocation(Inp(c)[2])
    /\ BlankTitle(Inp(c)[1], title_key(c))
    /\ ~BlankTitle(Inp(c)[2], title_key(c))
    /\ Out(c)[2] # Inp(c)[2]

\* C2 as stated: in a written output every record with a non-blank title has a
\* location that is a non-empty string, and every record with a blank or
\* missing title has no location field.
C2_AsStated ==
  \A c \in Collections :
    Saved(c) =>
      \A i \in 1..Len(Inp(c)) :
        IF BlankTitle(Inp(c)[i], title_key(c))
        THEN "location" \notin DOMAIN Out(c)[i].v
        ELSE HasLocationText(Out(c)[i])

\* C2 as amended: in a written output every record with a non-blank title has
\* a location that is a non-empty string, and every record with a blank or
\* missing title has the location field its input had, and none when its
\* input had none.
C2_LocationIffTitled ==
  \A c \in Collections :
    Saved(c) =>
      \A i \in 1..Len(Inp(c)) :
        IF BlankTitle(Inp(c)[i], title_key(c))
        THEN /\ "location" \in DOMAIN Out(c)[i].v <=> "location" \in DOMAIN Inp(c)[i].v
             /\ "location" \in DOMAIN Inp(c)[i].v =>
                  Out(c)[i].v["location"] = Inp(c)[i].v["location"]
        ELSE HasLocationText(Out(c)[i])

C2_Witness ==
  \E c \in Collections :
    /\ Saved(c)
    /\ Len(Inp(c)) = 2
    /\ BlankTitle(Inp(c)[1], title_key(c))
    /\ "location" \in DOMAIN Inp(c)[1].v
    /\ ~BlankTitle(Inp(c)[2], title_key(c))
    /\ "location" \notin DOMAIN Inp(c)[2].v
    /\ HasLocationText(Out(c)[2])

\* C3: when the call for a record fails with a network or an HTTP error, the
\* record's location is "Unknown Location" and the loop has moved past the
\* record; every answered call, before or after a failed one, has left on its
\* own record the location its own outcome gives.
C3_FailureGivesSentinelAndLoopGoesOn ==
  \A n \in 1..Len(got) :
    /\ Failed(got[n]) =>
         /\ idx > sent[n]
         /\ data.v[sent[n]].v["location"] = JStr(UnknownLocation)
    /\ idx > sent[n] =>
         data.v[sent[n]].v["location"] = JStr(extract_location(got[n]).v)

C3_Witness ==
  /\ pc = "write"
  /\ sent = <<1, 2>>
  /\ Failed(got[1])
  /\ got[2] = ReplyText(<<" ", "e", "o", " ">>)
  /\ data.v[1].v["location"] = JStr(UnknownLocation)
  /\ data.v[2].v["location"] = JStr(<<"e", "o">>)

\* C4: on a 2xx reply with `response` r (the empty text when the body has no
\* such field), extract_location returns "Unknown Location" when r trimmed is
\* empty or is "None", and r trimmed otherwise.
C4_ReplyTrimmedOrSentinel ==
  extracted # Pending =>
    LET r == IF "response" \in DOMAIN body.v.v THEN body.v.v["response"].v ELSE <<>>
    IN /\ ~extracted.raised
       /\ \E a \in 0..Len(r), b \in 0..Len(r) :
            /\ a + b <= Len(r)
            /\ IsTrimOf(SubSeq(r, a + 1, Len(r) - b), r)
            /\ extracted.v =
                 IF SubSeq(r, a + 1, Len(r) - b) \in {<<>>, NoneText}
                 THEN UnknownLocation
                 ELSE SubSeq(r, a + 1, Len(r) - b)

C4_Witness ==
  /\ extracted # Pending
  /\ body = Doc(JObj([response |-> JStr(<<" ", "n", "o", "n", "e">>)]))
  /\ extracted = Return(<<"n", "o", "n", "e">>)

\* What process_file is to write for array a when the requests posted for
\* the records `snt` came to the outcomes `gt`: each such record with the
\* location of its own outcome, every other record as it was.
Enriched(a, snt, gt) ==
  [i \in 1..Len(a) |->
    IF \E n \in 1..Len(snt) : snt[n] = i
    THEN LET n == CHOOSE m \in 1..Len(snt) : snt[m] = i
         IN JObj([f \in DOMAIN a[i].v \cup {"location"} |->
                   IF f = "location" THEN JStr(extract_location(gt[n]).v) ELSE a[i].v[f]])
    ELSE a[i]]

\* C5 without its completion clause: a collection whose input file is
\* missing, not JSON, empty or no array gets no inference call and no write,
\* its output file is as it was, process_file returns to main(), and after a
\* file error in works what is written for grants is what grants' own input
\* and replies give.
C5_FileErrorIsLocal ==
  \A c \in Collections :
    FileError(c) =>
      /\ nwrites[c] = 0
      /\ outFile[c] = outBefore[c]
      /\ cur = c => (sent = <<>> /\ inflight = {} /\ pc \in {"return", "done"})
      /\ (c = "works" /\ Saved("grants") /\ cur = "grants") =>
           Out("grants") = Enriched(Inp("grants"), sent, got)

\* C5 as stated: the above, and the run reaches the final completion step:
\* no exception ends it after the file error.
C5_AsStated ==
  /\ C5_FileErrorIsLocal
  /\ \A c \in Collections : FileError(c) => pc # "raised"

\* C6 as stated: no exception leaves process_file or the inference call.
C6_NoExceptionPropagates == pc # "raised"

\* The run failed before the write of collection c, and nothing was written.
NotWritten(c) == nwrites[c] = 0 /\ outFile[c] = outBefore[c]

\* C7 as stated: every record of a written output has the fields of its
\* input record (with their values, the location's apart) and a location that is a non-empty string; otherwise nothing
\* was written.
C7_AsStated ==
  \A c \in Collections :
    IF Saved(c)
    THEN \A i \in 1..Len(Inp(c)) :
           /\ DOMAIN Inp(c)[i].v \subseteq DOMAIN Out(c)[i].v
           /\ \A f \in DOMAIN Inp(c)[i].v \ {"location"} : Out(c)[i].v[f] = Inp(c)[i].v[f]
           /\ HasLocationText(Out(c)[i])
    ELSE NotWritten(c)

\* C7 as amended: every record of a written output has the fields of its
\* input record, and a location that is a non-empty string when its trimmed
\* title is not empty; otherwise nothing was written.
C7_FieldsKeptAndTitledLocated ==
  \A c \in Collections :
    IF Saved(c)
    THEN \A i \in 1..Len(Inp(c)) :
           /\ DOMAIN Inp(c)[i].v \subseteq DOMAIN Out(c)[i].v
           /\ \A f \in DOMAIN Inp(c)[i].v \ {"location"} : Out(c)[i].v[f] = Inp(c)[i].v[f]
           /\ ~BlankTitle(Inp(c)[i], title_key(c)) => HasLocationText(Out(c)[i])
    ELSE NotWritten(c)

C7_Witness ==
  \E c \in Collections :
    /\ Saved(c)
    /\ Len(Inp(c)) = 2
    /\ ~BlankTitle(Inp(c)[1], title_key(c))
    /\ Out(c)[1].v["location"] = JStr(UnknownLocation)
    /\ BlankTitle(Inp(c)[2], title_key(c))
    /\ "location" \notin DOMAIN Out(c)[2].v

\* C8: a written record differs from its input record in its location field
\* only: every other key has its input value, no other key is added, none is
\* removed, and a record with a blank or missing title is written as it was.
C8_OnlyLocationChanges ==
  \A c \in Collections :
    Saved(c) =>
      \A i \in 1..Len(Inp(c)) :
        /\ DOMAIN Out(c)[i].v \ {"location"} = DOMAIN Inp(c)[i].v \ {"location"}
        /\ "location" \in DOMAIN Inp(c)[i].v => "location" \in DOMAIN Out(c)[i].v
        /\ \A f \in DOMAIN Inp(c)[i].v \ {"location"} : Out(c)[i].v[f] = Inp(c)[i].v[f]
        /\ BlankTitle(Inp(c)[i], title_key(c)) => Out(c)[i] = Inp(c)[i]

C8_Witness ==
  \E c \in Collections :
    /\ Saved(c)
    /\ Len(Inp(c)) = 2
    /\ Inp(c)[1].v = Base @@ (title_key(c) :> JStr(<<" ", "B", " ">>))
    /\ Out(c)[1].v = Inp(c)[1].v @@ ("location" :> JStr(<<"e", "o">>))
    /\ Inp(c)[2].v = Base
    /\ Out(c)[2] = Inp(c)[2]

\* C9: in one process_file call the requests are posted in the order of the
\* array, one for each visited record with a non-blank title and none for any
\* other; at most one is outstanding; a request is posted only when every
\* earlier one is answered and its result attached; no record gets a second
\* request.
C9_OneRequestPerTitledRecordInOrder ==
  (pc # "main" /\ idx >= 1) =>
    /\ Cardinality(inflight) <= 1
    /\ \A m, n \in 1..Len(sent) : m < n => sent[m] < sent[n]
    /\ \A n \in 1..Len(sent) :
         /\ sent[n] \in 1..Len(Inp(cur))
         /\ sent[n] <= idx
         /\ ~BlankTitle(Inp(cur)[sent[n]], title_key(cur))
    /\ \A j \in 1..Len(Inp(cur)) :
         (j < idx /\ ~BlankTitle(Inp(cur)[j], title_key(cur))) =>
           \E n \in 1..Len(sent) : sent[n] = j
    /\ IF pc = "await"
       THEN /\ Len(got) = Len(sent) - 1
            /\ \A req \in inflight : req.i = sent[Len(sent)]
            /\ inflight # {}
       ELSE Len(got) = Len(sent) /\ inflight = {}
    /\ \A n \in 1..Len(sent) :
         (n < Len(sent) \/ pc \in {"loop", "write", "return", "done"}) =>
           data.v[sent[n]].v["location"] = JStr(extract_location(got[n]).v)

C9_Witness ==
  /\ pc = "await"
  /\ Len(Inp(cur)) = 2
  /\ sent = <<1, 2>>
  /\ Failed(got[1])
  /\ Cardinality(inflight) = 1

\* C10: an output file is written at most once, and only when every record
\* has been visited and no request is outstanding; until then, and when an
\* exception ends the run inside the loop, the file is as it was before the
\* run.
C10_WrittenOnceAfterTheLoop ==
  \A c \in Collections :
    /\ nwrites[c] <= 1
    /\ nwrites[c] = 0 => outFile[c] = outBefore[c]
    /\ nwrites[c] = 1 =>
         /\ Saved(c)
         /\ cur = c =>
              /\ pc \in {"return", "done"}
              /\ idx = Len(Inp(c)) + 1
              /\ inflight = {}
              /\ Len(got) = Len(sent)
              /\ outFile[c] = Doc(data)
    /\ (cur = c /\ pc \in {"exists", "load", "check", "loop", "await", "write", "raised"}) =>
         nwrites[c] = 0

C10_Witness ==
  /\ pc = "raised"
  /\ idx = 2
  /\ Len(got) = 1
  /\ HasLocationText(data.v[1])
  /\ outFile[cur] = OldOutput
====
